---- MODULE Spec2Model ----
(***************************************************************************)
(* The interface registry and dispatch engine of rust-ez-dbus.             *)
(*                                                                         *)
(* State: one Interfaces value (the shared interface map behind its        *)
(* Rc<RefCell<..>>, the finalized flag), the cells behind the property     *)
(* handlers, and a record of the last operation and what it observed.      *)
(* Operations: Interfaces::add_interface, Interfaces::finalize and         *)
(* Interfaces::handle, each one atomic action (the program is single       *)
(* threaded and every operation runs to completion).                       *)
(*                                                                         *)
(* The multiplexer (DBusRunner) is a second specification, SpecRunner: its *)
(* state is the server map and a record of the last multiplexer operation; *)
(* its operations are add_server, remove_server, the application's set-up  *)
(* of a server, and one turn of the loop of run.                           *)
(*                                                                         *)
(* The loop of run is also a third specification, SpecLoop, in which one   *)
(* turn is taken in steps: the connection yields an item, a server's       *)
(* handler runs, its reply is handed to the connection, the fold ends.     *)
(*                                                                         *)
(* SpecIntrospect applies the function that renders the introspection      *)
(* document to registries and children lists drawn from bounded sets.      *)
(*                                                                         *)
(* SpecBuilder builds one Interface with add_method, add_property and      *)
(* add_signal, registers it, and dispatches to it and renders it.          *)
(***************************************************************************)
EXTENDS Naturals, Sequences, FiniteSets, TLC

VARIABLES
    map,        \* contents of the shared Map<Interface> behind Interfaces.map
    finalized,  \* Interfaces.finalized
    live,       \* the caller still owns the Interfaces value (the builder calls consume it)
    panicked,   \* the thread unwound from a panic
    cells,      \* the values behind the property read/write handlers
    last,       \* the last operation: its inputs, its result and what it did
    servers,    \* DBusRunner.servers: server name -> DBusServer
    rlast,      \* the last multiplexer operation: its inputs, its result and what it did
    loop,       \* where the loop of run stands, and the events of its turns so far
    intro,      \* the last direct call of IntrospectableInterface::introspect
    builder     \* an Interface under construction and the members added to it so far

vars == <<map, finalized, live, panicked, cells, last, servers, rlast, loop, intro, builder>>

----------------------------------------------------------------------------
(* Bounds of the model *)

\* successful add_interface calls made by the application
MaxIfaces == 2
\* serial numbers of inbound messages are 1..MaxSerial
MaxSerial == 2
\* items the connection yields to the loop of run in SpecLoop
MaxItems == 3
\* add_method, add_property and add_signal calls on one Interface in SpecBuilder
MaxAdds == 3

----------------------------------------------------------------------------
(* Names *)

PeerName == "org.freedesktop.DBus.Peer"
PropertiesName == "org.freedesktop.DBus.Properties"
IntrospectableName == "org.freedesktop.DBus.Introspectable"
StdNames == {PeerName, PropertiesName, IntrospectableName}
UserNames == {"com.example.A", "com.example.B"}
IfaceNames == UserNames \cup StdNames

\* BTreeMap<String, T>: a function on a finite set of strings.
EmptyMap == <<>>

\* BTreeMap::insert: the value stored under k is replaced.
Insert(m, k, v) == [x \in (DOMAIN m) \cup {k} |-> IF x = k THEN v ELSE m[x]]

----------------------------------------------------------------------------
(* Values, results *)

StrV(s) == [t |-> "s", s |-> s, d |-> EmptyMap]
IntV(s) == [t |-> "i", s |-> s, d |-> EmptyMap]
DictV(d) == [t |-> "a{sv}", s |-> "", d |-> d]
\* a cell nothing readable is stored in: its reader fails
Unset == [t |-> "unset", s |-> "", d |-> EmptyMap]

ErrorMessage_new(name, message) == [name |-> name, message |-> message]
NoErr == ErrorMessage_new("", "")

\* MethodResult = Result<Vec<Value>, ErrorMessage>
Ok(vals) == [ok |-> TRUE, vals |-> vals, err |-> NoErr]
Err(e) == [ok |-> FALSE, vals |-> <<>>, err |-> e]

----------------------------------------------------------------------------
(* Descriptors: Argument, Annotation, Method, Property, Signal, Interface *)

Argument_new(name, sig) == [name |-> name, signature |-> sig]
Annotation_new(name, value) == [name |-> name, value |-> value]

\* A method callback: which closure it is and the Rc of the map it captured.
Cb(kind, id, rc) == [kind |-> kind, id |-> id, rc |-> rc]

Method_new(cb) == [in_args |-> <<>>, out_args |-> <<>>, cb |-> cb, anns |-> <<>>]
Method_add_argument(m, arg) == [m EXCEPT !.in_args = Append(@, arg)]
Method_add_result(m, arg) == [m EXCEPT !.out_args = Append(@, arg)]
Method_annotate(m, ann) == [m EXCEPT !.anns = Append(@, ann)]

\* PropertyAccess::{RO, RW, WO} with the boxed handler h.
Property_new(sig, kind, h) == [signature |-> sig, access |-> [kind |-> kind, h |-> h], anns |-> <<>>]
new_ro(sig, h) == Property_new(sig, "RO", h)
new_rw(sig, h) == Property_new(sig, "RW", h)
new_wo(sig, h) == Property_new(sig, "WO", h)
Property_annotate(p, ann) == [p EXCEPT !.anns = Append(@, ann)]

Signal_new == [args |-> <<>>, anns |-> <<>>]
Signal_add_argument(s, arg) == [s EXCEPT !.args = Append(@, arg)]
Signal_annotate(s, ann) == [s EXCEPT !.anns = Append(@, ann)]

Interface_new == [methods |-> EmptyMap, properties |-> EmptyMap, signals |-> EmptyMap]
\* Mutant: a method added under a name that is taken is dropped.
add_method_keep_first(i, name, method) ==
    IF name \in DOMAIN i.methods THEN i ELSE [i EXCEPT !.methods = Insert(@, name, method)]
add_method(i, name, method) == [i EXCEPT !.methods = Insert(@, name, method)]
add_property(i, name, property) == [i EXCEPT !.properties = Insert(@, name, property)]
add_signal(i, name, signal) == [i EXCEPT !.signals = Insert(@, name, signal)]

----------------------------------------------------------------------------
(* The application's interfaces and handlers *)

\* Property handlers are objects with interior state; each is named by the
\* interface name and property it is boxed into.
HandlerId(n, p) == n \o "/" \o p
PropNames == {"ro", "rw", "wo", "bad"}
Handlers == {HandlerId("com.example.A", p) : p \in PropNames}

V0 == StrV("v0")
V1 == StrV("v1")

\* An interface with one property of each access mode, one read-only
\* property whose reader fails, and a method.
PropIface(n) ==
    add_method(
        add_property(add_property(add_property(add_property(Interface_new,
            "ro", new_ro("s", HandlerId(n, "ro"))),
            "rw", new_rw("s", HandlerId(n, "rw"))),
            "wo", new_wo("s", HandlerId(n, "wo"))),
            "bad", new_ro("s", HandlerId(n, "bad"))),
        "m", Method_new(Cb("user", "p.m", "")))

\* An interface with two methods and no property.
MethIface(n) ==
    add_method(add_method(Interface_new,
        "m", Method_add_argument(Method_new(Cb("user", "q.m", "")), Argument_new("x", "s"))),
        "n", Method_new(Cb("user", "q.n", "")))

\* The interfaces the application registers under name n.
UserIfaces(n) == IF n = "com.example.A" THEN {PropIface(n), MethIface(n)} ELSE {MethIface(n)}

\* The application's method closures: p.m returns the values of the call's
\* body and fails when there is none, q.m returns two values, q.n fails.
UserErr == ErrorMessage_new("org.example.Failed", "boom")
UserCb(id, m) ==
    CASE id = "p.m" -> IF m.body.st = "ok" THEN Ok(m.body.vals) ELSE Err(UserErr)
      [] id = "q.m" -> Ok(<<V1, V0>>)
      [] OTHER -> Err(UserErr)

\* PropertyReadHandler::get / PropertyReadWriteHandler::get of handler h
ReadFailed == ErrorMessage_new("org.example.ReadFailed", "no value")
handler_get(c, h) ==
    IF c[h] = Unset THEN [ok |-> FALSE, val |-> Unset, err |-> ReadFailed]
    ELSE [ok |-> TRUE, val |-> c[h], err |-> NoErr]

\* PropertyWriteHandler::set / PropertyReadWriteHandler::set of handler h:
\* the handler stores strings and rejects anything else.
WriteFailed == ErrorMessage_new("org.example.WriteFailed", "not a string")
handler_set(c, h, v) ==
    IF v.t = "s" THEN [ok |-> TRUE, err |-> NoErr, cells |-> [c EXCEPT ![h] = v]]
    ELSE [ok |-> FALSE, err |-> WriteFailed, cells |-> c]

InitCells == [h \in Handlers |->
    IF h \in {HandlerId("com.example.A", "wo"), HandlerId("com.example.A", "bad")} THEN Unset ELSE V0]

----------------------------------------------------------------------------
(* Interface: property dispatch.  Each operator returns the MethodResult   *)
(* (res), the handler cells afterwards and the handlers it invoked.        *)

\* All map keys of the model in the order of Rust's String Ord (byte-wise),
\* the order a BTreeMap iterates in.
SortedNames == <<"Get", "GetAll", "GetMachineId", "Introspect", "Ping", "Set",
                 "bad", "com.example.A", "com.example.B", "m", "n",
                 "org.freedesktop.DBus.Introspectable", "org.freedesktop.DBus.Peer",
                 "org.freedesktop.DBus.Properties", "ro", "rw",
                 "sig.a", "sig.b", "srv.a", "srv.b", "srv.c", "wo">>
InMap(m, k) == k \in DOMAIN m
Keys(m) == SelectSeq(SortedNames, LAMBDA k : InMap(m, k))

Call(op, h) == [op |-> op, h |-> h]
Outcome(res, c, calls) == [res |-> res, cells |-> c, calls |-> calls]

_require_property(i, name) ==
    IF name \in DOMAIN i.properties
    THEN [ok |-> TRUE, prop |-> i.properties[name], err |-> NoErr]
    ELSE [ok |-> FALSE, prop |-> Property_new("", "", ""),
          err |-> ErrorMessage_new("org.freedesktop.DBus.Error.UnknownProperty",
                                   "unknown property: " \o name)]

get_property_value(i, name, c) ==
    LET r == _require_property(i, name)
        a == r.prop.access
        g == handler_get(c, a.h)
    IN  IF ~r.ok THEN Outcome(Err(r.err), c, <<>>)
        ELSE IF a.kind \in {"RO", "RW"}
        THEN Outcome(IF g.ok THEN Ok(<<g.val>>) ELSE Err(g.err), c, <<Call("get", a.h)>>)
        ELSE Outcome(Err(ErrorMessage_new("org.freedesktop.DBus.Error.Failed",
                                          "property is write-only: " \o name)), c, <<>>)

set_property_value(i, name, value, c) ==
    LET r == _require_property(i, name)
        a == r.prop.access
        w == handler_set(c, a.h, value)
    IN  IF ~r.ok THEN Outcome(Err(r.err), c, <<>>)
        ELSE IF a.kind \in {"WO", "RW"}
        THEN Outcome(IF w.ok THEN Ok(<<>>) ELSE Err(w.err), w.cells, <<Call("set", a.h)>>)
        ELSE Outcome(Err(ErrorMessage_new("org.freedesktop.DBus.Error.Failed",
                                          "property is read-only: " \o name)), c, <<>>)

\* The properties get_property_map reads: every RO and RW one, in name order.
Readable(i) == SelectSeq(Keys(i.properties), LAMBDA k : i.properties[k].access.kind \in {"RO", "RW"})

get_property_map(i, c) ==
    LET rd == Readable(i)
        kept == {k \in DOMAIN i.properties :
                    /\ i.properties[k].access.kind \in {"RO", "RW"}
                    /\ handler_get(c, i.properties[k].access.h).ok}
    IN  [dict |-> [k \in kept |-> handler_get(c, i.properties[k].access.h).val],
         calls |-> [j \in 1..Len(rd) |-> Call("get", i.properties[rd[j]].access.h)]]

----------------------------------------------------------------------------
(* Arguments (arguments.rs) *)

invalid_arguments == ErrorMessage_new("org.freedesktop.DBus.Error.InvalidArgs", "invalid arguments")
invalid_argument(index) ==
    ErrorMessage_new("org.freedesktop.DBus.Error.InvalidArgs", "invalid argument at " \o ToString(index))

\* Message::values: the demarshalled body, if the message has one.
Message_values(m) == m.body

Arguments_new(m) ==
    IF Message_values(m).st = "ok"
    THEN [ok |-> TRUE, values |-> Message_values(m).vals, err |-> NoErr]
    ELSE [ok |-> FALSE, values |-> <<>>, err |-> invalid_arguments]

\* index counts from 0
extract(values, index) ==
    IF index < Len(values)
    THEN [ok |-> TRUE, val |-> values[index + 1], err |-> NoErr]
    ELSE [ok |-> FALSE, val |-> Unset, err |-> invalid_argument(index)]

extract_string(values, index) ==
    LET v == extract(values, index)
    IN  IF ~v.ok THEN [ok |-> FALSE, str |-> "", err |-> v.err]
        ELSE IF v.val.t = "s" THEN [ok |-> TRUE, str |-> v.val.s, err |-> NoErr]
        ELSE [ok |-> FALSE, str |-> "", err |-> invalid_argument(index)]

----------------------------------------------------------------------------
(* The shared map: Rc<RefCell<Map<Interface>>> *)

\* The Rc Interfaces::new allocates; every clone of it is the same pointer.
MapRc == "rc0"
\* Mutant: the closure gets a map of its own instead of a clone of the Rc.
Rc_clone_fresh(rc) == "rc1"
Rc_clone(rc) == rc
\* What a holder of rc sees behind it.
Deref(rc) ==
    IF rc = MapRc THEN map
    ELSE IF \E s \in DOMAIN servers : servers[s].reg.rc = rc
    THEN (CHOOSE r \in {servers[s].reg : s \in DOMAIN servers} : r.rc = rc).map
    ELSE EmptyMap

\* RefCell borrow flag: "free", "shared" or "mut".  borrow() and
\* borrow_mut() panic on a conflicting outstanding borrow.
RefCell_borrow(st) == [ok |-> st # "mut", st |-> "shared"]
RefCell_borrow_mut(st) == [ok |-> st = "free", st |-> "mut"]

require_interface(m, name) ==
    IF name \in DOMAIN m
    THEN [ok |-> TRUE, iface |-> m[name], err |-> NoErr]
    ELSE [ok |-> FALSE, iface |-> Interface_new,
          err |-> ErrorMessage_new("org.freedesktop.DBus.Error.UnknownInterface",
                                   "unknown interface: " \o name)]

----------------------------------------------------------------------------
(* Standard interfaces.  A handler returns whether it panicked, its        *)
(* MethodResult, the handler cells afterwards and the handlers it invoked. *)

HOut(panic, res, c, calls) == [panic |-> panic, res |-> res, cells |-> c, calls |-> calls]
Panic(c) == HOut(TRUE, Err(NoErr), c, <<>>)

MachineId_get == "machine-id"
\* Mutant: Ping answers with a value.
PeerInterface_ping_pong == Ok(<<StrV("pong")>>)
PeerInterface_ping == Ok(<<>>)
PeerInterface_get_machine_id == Ok(<<StrV(MachineId_get)>>)

PeerInterface_new ==
    add_method(add_method(Interface_new,
        "Ping", Method_new(Cb("ping", "Peer.Ping", ""))),
        "GetMachineId", Method_add_result(Method_new(Cb("machine_id", "Peer.GetMachineId", "")),
                                          Argument_new("machine_uuid", "s")))

\* st is the borrow flag of the RefCell behind rc when the handler runs.
PropertyInterface_get_property(rc, m, st, c) ==
    LET values == Arguments_new(m)
        iface == extract_string(values.values, 0)
        property == extract_string(values.values, 1)
        ri == require_interface(Deref(rc), iface.str)
        o == get_property_value(ri.iface, property.str, c)
    IN  IF ~values.ok THEN HOut(FALSE, Err(values.err), c, <<>>)
        ELSE IF ~iface.ok THEN HOut(FALSE, Err(iface.err), c, <<>>)
        ELSE IF ~property.ok THEN HOut(FALSE, Err(property.err), c, <<>>)
        ELSE IF ~RefCell_borrow(st).ok THEN Panic(c)
        ELSE IF ~ri.ok THEN HOut(FALSE, Err(ri.err), c, <<>>)
        ELSE HOut(FALSE, o.res, o.cells, o.calls)

PropertyInterface_set_property(rc, m, st, c) ==
    LET values == Arguments_new(m)
        iface == extract_string(values.values, 0)
        property == extract_string(values.values, 1)
        value == extract(values.values, 2)
        ri == require_interface(Deref(rc), iface.str)
        o == set_property_value(ri.iface, property.str, value.val, c)
    IN  IF ~values.ok THEN HOut(FALSE, Err(values.err), c, <<>>)
        ELSE IF ~iface.ok THEN HOut(FALSE, Err(iface.err), c, <<>>)
        ELSE IF ~property.ok THEN HOut(FALSE, Err(property.err), c, <<>>)
        ELSE IF ~value.ok THEN HOut(FALSE, Err(value.err), c, <<>>)
        ELSE IF ~RefCell_borrow(st).ok THEN Panic(c)
        ELSE IF ~ri.ok THEN HOut(FALSE, Err(ri.err), c, <<>>)
        ELSE HOut(FALSE, o.res, o.cells, o.calls)

PropertyInterface_get_all_properties(rc, m, st, c) ==
    LET values == Arguments_new(m)
        iface == extract_string(values.values, 0)
        ri == require_interface(Deref(rc), iface.str)
        o == get_property_map(ri.iface, c)
    IN  IF ~values.ok THEN HOut(FALSE, Err(values.err), c, <<>>)
        ELSE IF ~iface.ok THEN HOut(FALSE, Err(iface.err), c, <<>>)
        ELSE IF ~RefCell_borrow(st).ok THEN Panic(c)
        ELSE IF ~ri.ok THEN HOut(FALSE, Err(ri.err), c, <<>>)
        ELSE HOut(FALSE, Ok(<<DictV(o.dict)>>), c, o.calls)

PropertyInterface_new(rc) ==
    LET get_map == Rc_clone(rc)
        set_map == Rc_clone(rc)
        get_all_map == Rc_clone(rc)
    IN  add_method(add_method(add_method(Interface_new,
            "Get", Method_add_result(Method_add_argument(Method_add_argument(
                        Method_new(Cb("get", "Properties.Get", get_map)),
                        Argument_new("interface_name", "s")),
                        Argument_new("property_name", "s")),
                        Argument_new("value", "v"))),
            "Set", Method_add_result(Method_add_argument(Method_add_argument(
                        Method_new(Cb("set", "Properties.Set", set_map)),
                        Argument_new("interface_name", "s")),
                        Argument_new("property_name", "s")),
                        Argument_new("value", "v"))),
            "GetAll", Method_add_result(Method_add_argument(
                        Method_new(Cb("get_all", "Properties.GetAll", get_all_map)),
                        Argument_new("interface_name", "s")),
                        Argument_new("props", "{sv}")))

----------------------------------------------------------------------------
(* Introspectable: the document is built with format! over raw string      *)
(* literals, so "\n" in them is a backslash and an n.                      *)

CargoPkgVersion == "0.1.0"

RECURSIVE Concat(_)
Concat(ss) == IF ss = <<>> THEN "" ELSE ss[1] \o Concat(Tail(ss))

_introspect_annotation(indent, ann) ==
    indent \o "<annotation name=\"" \o ann.name \o "\" value=\"" \o ann.value \o "\" />\\n"

_introspect_arg(indent, direction, arg) ==
    indent \o "<arg name=\"" \o arg.name \o "\" type=\"" \o arg.signature
           \o "\" direction=\"" \o direction \o "\" />\\n"

AccessWord(kind) == CASE kind = "RO" -> "read" [] kind = "RW" -> "readwrite" [] OTHER -> "write"

\* The format string has no {} for the indent in front and none in name="":
\* the name lands where the indent was meant to go.
_introspect_property(indent, name, prop) ==
    LET new_indent == indent \o " "
    IN  name \o "<property name=\"\" type=\"" \o prop.signature
             \o "\" access=\"" \o AccessWord(prop.access.kind) \o "\">\\n"
             \o Concat([j \in 1..Len(prop.anns) |-> _introspect_annotation(new_indent, prop.anns[j])])
             \o indent \o "</property>\\n"

_introspect_method(indent, name, method) ==
    LET new_indent == indent \o " "
    IN  name \o "<method name=\"\">\\n"
             \o Concat([j \in 1..Len(method.in_args) |-> _introspect_arg(new_indent, "in", method.in_args[j])])
             \o Concat([j \in 1..Len(method.out_args) |-> _introspect_arg(new_indent, "out", method.out_args[j])])
             \o Concat([j \in 1..Len(method.anns) |-> _introspect_annotation(new_indent, method.anns[j])])
             \o indent \o "</method>\\n"

_introspect_signal(indent, name, signal) ==
    LET new_indent == indent \o " "
    IN  name \o "<signal name=\"\">\\n"
             \o Concat([j \in 1..Len(signal.args) |-> _introspect_arg(new_indent, "out", signal.args[j])])
             \o Concat([j \in 1..Len(signal.anns) |-> _introspect_annotation(new_indent, signal.anns[j])])
             \o indent \o "</signal>\\n"

\* Mutant: the methods of an interface are rendered before its properties.
_introspect_interface_methods_first(indent, name, iface) ==
    LET new_indent == indent \o " "
        ps == Keys(iface.properties)
        ms == Keys(iface.methods)
        ss == Keys(iface.signals)
    IN  indent \o "<interface name=\"" \o name \o "\">\\n"
               \o Concat([j \in 1..Len(ms) |-> _introspect_method(new_indent, ms[j], iface.methods[ms[j]])])
               \o Concat([j \in 1..Len(ps) |-> _introspect_property(new_indent, ps[j], iface.properties[ps[j]])])
               \o Concat([j \in 1..Len(ss) |-> _introspect_signal(new_indent, ss[j], iface.signals[ss[j]])])
               \o indent \o "</interface>\\n"

_introspect_interface(indent, name, iface) ==
    LET new_indent == indent \o " "
        ps == Keys(iface.properties)
        ms == Keys(iface.methods)
        ss == Keys(iface.signals)
    IN  indent \o "<interface name=\"" \o name \o "\">\\n"
               \o Concat([j \in 1..Len(ps) |-> _introspect_property(new_indent, ps[j], iface.properties[ps[j]])])
               \o Concat([j \in 1..Len(ms) |-> _introspect_method(new_indent, ms[j], iface.methods[ms[j]])])
               \o Concat([j \in 1..Len(ss) |-> _introspect_signal(new_indent, ss[j], iface.signals[ss[j]])])
               \o indent \o "</interface>\\n"

IntrospectXml(m, children) ==
    LET ns == Keys(m)
    IN  "<!DOCTYPE node PUBLIC \"-//freedesktop//DTD D-BUS Object Introspection 1.0//EN\"\\n"
        \o " \"http://www.freedesktop.org/standards/dbus/1.0/introspect.dtd\">\\n"
        \o "<!-- rust-bus " \o CargoPkgVersion \o " -->"
        \o "<node>\\n"
        \o Concat([j \in 1..Len(ns) |-> _introspect_interface(" ", ns[j], m[ns[j]])])
        \o Concat([j \in 1..Len(children) |-> " <node name=\"" \o children[j] \o "\" />"])
        \o "</node>\\n"

\* The ChildrenList handed to finalize.
Children == <<"child0">>

IntrospectableInterface_introspect(rc, children, st, c) ==
    IF ~RefCell_borrow(st).ok THEN Panic(c)
    ELSE HOut(FALSE, Ok(<<StrV(IntrospectXml(Deref(rc), children))>>), c, <<>>)

IntrospectableInterface_new(rc, children) ==
    LET introspect_map == Rc_clone(rc)
    IN  add_method(Interface_new,
            "Introspect", Method_add_result(Method_new(Cb("introspect", "Introspectable.Introspect", introspect_map)),
                                            Argument_new("xml_data", "s")))

----------------------------------------------------------------------------
(* Messages *)

NoHeaders == [present |-> FALSE, interface |-> "", method |-> ""]
CallHeaders(i, m) == [present |-> TRUE, interface |-> i, method |-> m]
NoBody == [st |-> "none", vals |-> <<>>]
BadBody == [st |-> "err", vals |-> <<>>]
Body(vals) == [st |-> "ok", vals |-> vals]
InMessage(serial, hdrs, body) == [serial |-> serial, hdrs |-> hdrs, body |-> body]
NoMessage == InMessage(0, NoHeaders, NoBody)

\* Message::call_headers: the call target of the message, if it has one.
call_headers(m) == m.hdrs

Message_return_message(m) ==
    [type |-> "method_return", reply_serial |-> m.serial, error_name |-> "", args |-> <<>>]
\* Mutant: the error reply does not carry the handler's error name.
Message_error_message_generic(m, name) ==
    [type |-> "error", reply_serial |-> m.serial,
     error_name |-> "org.freedesktop.DBus.Error.Failed", args |-> <<>>]
Message_error_message(m, name) ==
    [type |-> "error", reply_serial |-> m.serial, error_name |-> name, args |-> <<>>]
\* Mutant: the argument is put in front of the earlier ones.
Message_add_argument_prepend(msg, arg) == [msg EXCEPT !.args = <<arg>> \o @]
Message_add_argument(msg, arg) == [msg EXCEPT !.args = Append(@, arg)]

\* vals.iter().fold(msg, |msg, val| msg.add_argument(val))
RECURSIVE FoldArguments(_, _)
FoldArguments(msg, vals) ==
    IF vals = <<>> THEN msg
    ELSE FoldArguments(Message_add_argument(msg, Head(vals)), Tail(vals))

----------------------------------------------------------------------------
(* Interfaces *)

Error(kind, name) == [kind |-> kind, name |-> name]
NoError == Error("", "")

\* An Interfaces value: its Rc, what is behind the Rc, and its flag.
Interfaces(rc, m, f) == [rc |-> rc, map |-> m, finalized |-> f]
Interfaces_new == Interfaces(MapRc, EmptyMap, FALSE)
Self == Interfaces(MapRc, map, finalized)

\* Mutant: the duplicate check comes before the finalized check.
Interfaces_add_interface_dup_first(self, name, iface) ==
    IF name \in DOMAIN self.map
    THEN [ok |-> FALSE, err |-> Error("InterfaceAlreadyRegistered", name), self |-> self]
    ELSE IF self.finalized
    THEN [ok |-> FALSE, err |-> Error("InterfacesFinalized", name), self |-> self]
    ELSE [ok |-> TRUE, err |-> NoError, self |-> [self EXCEPT !.map = Insert(@, name, iface)]]

\* Mutant: an occupied entry is overwritten.
Interfaces_add_interface_replace(self, name, iface) ==
    IF self.finalized
    THEN [ok |-> FALSE, err |-> Error("InterfacesFinalized", name), self |-> self]
    ELSE [ok |-> TRUE, err |-> NoError, self |-> [self EXCEPT !.map = Insert(@, name, iface)]]

\* Mutant: the finalized flag is not looked at.
Interfaces_add_interface_unflagged(self, name, iface) ==
    IF name \in DOMAIN self.map
    THEN [ok |-> FALSE, err |-> Error("InterfaceAlreadyRegistered", name), self |-> self]
    ELSE [ok |-> TRUE, err |-> NoError, self |-> [self EXCEPT !.map = Insert(@, name, iface)]]

\* On Err the value is consumed; self then is what it was when it was dropped.
Interfaces_add_interface(self, name, iface) ==
    IF self.finalized
    THEN [ok |-> FALSE, err |-> Error("InterfacesFinalized", name), self |-> self]
    ELSE IF name \in DOMAIN self.map
    THEN [ok |-> FALSE, err |-> Error("InterfaceAlreadyRegistered", name), self |-> self]
    ELSE [ok |-> TRUE, err |-> NoError, self |-> [self EXCEPT !.map = Insert(@, name, iface)]]

\* The three adds of finalize, in the order they are chained.
FinalizeSteps(self, children) ==
    LET r1 == Interfaces_add_interface(self, PeerName, PeerInterface_new)
        r2 == IF r1.ok
              THEN Interfaces_add_interface(r1.self, PropertiesName,
                                            PropertyInterface_new(Rc_clone(r1.self.rc)))
              ELSE r1
        r3 == IF r2.ok
              THEN Interfaces_add_interface(r2.self, IntrospectableName,
                                            IntrospectableInterface_new(Rc_clone(r2.self.rc), children))
              ELSE r2
    IN  <<r1, r2, r3>>

Interfaces_finalize(self, children) ==
    LET r == FinalizeSteps(self, children)[3]
    IN  IF r.ok THEN [r EXCEPT !.self.finalized = TRUE] ELSE r

\* The names finalize inserted, in the order it inserted them.
FinalizeAdded(self, children) ==
    LET rs == FinalizeSteps(self, children)
        ns == <<PeerName, PropertiesName, IntrospectableName>>
        upto == IF rs[3].ok THEN 3 ELSE IF rs[2].ok THEN 2 ELSE IF rs[1].ok THEN 1 ELSE 0
    IN  SubSeq(ns, 1, upto)


\* (method.cb)(msg): the closure stored in the method.  st is the borrow flag
\* of the shared map while the closure runs.
RunCb(cb, m, st, c) ==
    CASE cb.kind = "user" -> HOut(FALSE, UserCb(cb.id, m), c, <<>>)
      [] cb.kind = "ping" -> HOut(FALSE, PeerInterface_ping, c, <<>>)
      [] cb.kind = "machine_id" -> HOut(FALSE, PeerInterface_get_machine_id, c, <<>>)
      [] cb.kind = "get" -> PropertyInterface_get_property(cb.rc, m, st, c)
      [] cb.kind = "set" -> PropertyInterface_set_property(cb.rc, m, st, c)
      [] cb.kind = "get_all" -> PropertyInterface_get_all_properties(cb.rc, m, st, c)
      [] OTHER -> IntrospectableInterface_introspect(cb.rc, Children, st, c)

\* What one call of handle does: val is its return value ("None", "SomeOk",
\* "SomeErr", or "Panic" when it unwinds instead of returning), ran whether a
\* method closure was invoked, hres what the closure returned, calls the
\* closure and property handlers invoked, sent the messages handed to
\* Connection::send.
HandleOut(val, ran, hres, calls, sent, c) ==
    [val |-> val, ran |-> ran, hres |-> hres, calls |-> calls, sent |-> sent, cells |-> c]

\* Mutant: a reply whose send failed is sent a second time.
Interfaces_handle_resend(self, m, sendOk, c) ==
    LET hdrs == call_headers(m)
        found == /\ hdrs.interface \in DOMAIN self.map
                 /\ hdrs.method \in DOMAIN self.map[hdrs.interface].methods
        method == self.map[hdrs.interface].methods[hdrs.method]
        h == RunCb(method.cb, m, "mut", c)
        reply == IF h.res.ok
                 THEN FoldArguments(Message_return_message(m), h.res.vals)
                 ELSE Message_add_argument(Message_error_message(m, h.res.err.name),
                                           StrV(h.res.err.message))
    IN  IF ~hdrs.present \/ ~found
        THEN HandleOut("None", FALSE, Err(NoErr), <<>>, <<>>, c)
        ELSE IF h.panic
        THEN HandleOut("Panic", TRUE, Err(NoErr), <<Call("cb", method.cb.id)>>, <<>>, h.cells)
        ELSE HandleOut(IF sendOk THEN "SomeOk" ELSE "SomeErr", TRUE, h.res,
                       <<Call("cb", method.cb.id)>> \o h.calls,
                       IF sendOk THEN <<reply>> ELSE <<reply, reply>>, h.cells)

\* The RefMut of self.map.borrow_mut() is a temporary of the expression that
\* looks the method up and calls it: the map stays mutably borrowed while the
\* closure runs and until the reply has been sent.
Interfaces_handle(self, m, sendOk, c) ==
    LET hdrs == call_headers(m)
        iface_name == hdrs.interface
        method_name == hdrs.method
        guard == RefCell_borrow_mut("free")
        found == /\ iface_name \in DOMAIN self.map
                 /\ method_name \in DOMAIN self.map[iface_name].methods
        method == self.map[iface_name].methods[method_name]
        h == RunCb(method.cb, m, guard.st, c)
        reply == IF h.res.ok
                 THEN FoldArguments(Message_return_message(m), h.res.vals)
                 ELSE Message_add_argument(Message_error_message(m, h.res.err.name),
                                           StrV(h.res.err.message))
    IN  IF ~hdrs.present \/ ~found
        THEN HandleOut("None", FALSE, Err(NoErr), <<>>, <<>>, c)
        ELSE IF h.panic
        THEN HandleOut("Panic", TRUE, Err(NoErr), <<Call("cb", method.cb.id)>>, <<>>, h.cells)
        ELSE HandleOut(IF sendOk THEN "SomeOk" ELSE "SomeErr", TRUE, h.res,
                       <<Call("cb", method.cb.id)>> \o h.calls, <<reply>>, h.cells)

----------------------------------------------------------------------------
(* Inbound messages offered to handle *)

\* Call targets: every method of the standard interfaces and of the
\* application's, and methods the addressed interface does not have.
Targets ==
    {NoHeaders}
    \cup {CallHeaders(i, m) : i \in UserNames, m \in {"m", "n", "Ping"}}
    \cup {CallHeaders(PeerName, m) : m \in {"Ping", "GetMachineId", "m"}}
    \cup {CallHeaders(PropertiesName, m) : m \in {"Get", "Set", "GetAll", "m"}}
    \cup {CallHeaders(IntrospectableName, m) : m \in {"Introspect", "m"}}

\* Argument lists for the Properties methods: well formed ones naming known
\* and unknown interfaces and properties, and malformed ones.
ArgLists ==
    {<<>>, <<IntV("7")>>, <<StrV("com.example.A")>>, <<StrV("com.example.A"), IntV("7")>>}
    \cup {<<StrV("com.example.A"), StrV(p)>> : p \in {"ro", "rw", "wo", "zz"}}
    \cup {<<StrV("com.example.B"), StrV("ro")>>}
    \cup {<<StrV("com.example.A"), StrV(p), V1>> : p \in {"ro", "rw", "wo", "zz"}}
    \cup {<<StrV("com.example.A"), StrV("rw"), IntV("7")>>, <<StrV("com.example.B"), StrV("rw"), V1>>}

\* The bodies tried with target t.
BodiesFor(t) ==
    IF t.present /\ t.interface = PropertiesName
    THEN {NoBody, BadBody} \cup {Body(a) : a \in ArgLists}
    ELSE {NoBody, Body(<<>>), Body(<<V1>>)}

Messages == UNION {{InMessage(s, t, b) : s \in 1..MaxSerial, b \in BodiesFor(t)} : t \in Targets}

----------------------------------------------------------------------------
(* The multiplexer: DBusRunner and the servers it owns *)

ServerNames == {"srv.a", "srv.b", "srv.c"}

\* A DBusServer: its bus name and the registry it dispatches through.
DBusServer(name, reg) == [name |-> name, reg |-> reg]

\* DBusServer::new(conn, name): ok is whether the connection grants the name.
\* The registry of a new server is empty and has an Rc of its own.
DBusServer_new(name, ok) ==
    [ok |-> ok,
     err |-> IF ok THEN NoError ELSE Error("DBusMessage", name),
     server |-> DBusServer(name, Interfaces("rc." \o name, EmptyMap, FALSE))]

\* What the application registers in server s before the loop runs.
ServerSetups(s) ==
    CASE s = "srv.a" -> {EmptyMap, [n \in {"com.example.A"} |-> MethIface(n)]}
      [] s = "srv.b" -> {[n \in {"com.example.A"} |-> MethIface(n)],
                         [n \in {"com.example.B"} |-> MethIface(n)]}
      [] OTHER -> {[n \in {"com.example.B"} |-> MethIface(n)]}

\* The application's add_interface calls on a registry, one per entry of u.
RECURSIVE AddAll(_, _, _)
AddAll(reg, u, names) ==
    IF names = <<>> THEN reg
    ELSE AddAll(Interfaces_add_interface(reg, Head(names), u[Head(names)]).self, u, Tail(names))

\* The set-up of a server: the interfaces of u are added and the registry
\* is finalized.
DBusServer_setup(server, u) ==
    [server EXCEPT !.reg = Interfaces_finalize(AddAll(@, u, Keys(u)), Children).self]

\* DBusServer::handle_message(m): the message is put to the registry's
\* handle, whose outcome this is; the server gives the message back (Some)
\* when handle returned None.
DBusServer_handle_message(server, m, sendOk, c) == Interfaces_handle(server.reg, m, sendOk, c)
GivenBack(h) == h.val = "None"

\* Mutant: add_server overwrites an occupied entry.
DBusRunner_add_server_replace(srvs, name, ok) ==
    LET s == DBusServer_new(name, ok)
    IN  IF ~s.ok THEN [ok |-> FALSE, err |-> s.err, servers |-> srvs]
        ELSE [ok |-> TRUE, err |-> NoError, servers |-> Insert(srvs, name, s.server)]

\* Mutant: a failed construction leaves an entry under the name behind.
DBusRunner_add_server_leave_entry(srvs, name, ok) ==
    LET s == DBusServer_new(name, ok)
    IN  IF name \in DOMAIN srvs
        THEN [ok |-> FALSE, err |-> Error("ServerAlreadyRegistered", name), servers |-> srvs]
        ELSE IF ~s.ok THEN [ok |-> FALSE, err |-> s.err, servers |-> Insert(srvs, name, s.server)]
        ELSE [ok |-> TRUE, err |-> NoError, servers |-> Insert(srvs, name, s.server)]

DBusRunner_add_server(srvs, name, ok) ==
    LET s == DBusServer_new(name, ok)
    IN  IF name \in DOMAIN srvs
        THEN [ok |-> FALSE, err |-> Error("ServerAlreadyRegistered", name), servers |-> srvs]
        ELSE IF ~s.ok THEN [ok |-> FALSE, err |-> s.err, servers |-> srvs]
        ELSE [ok |-> TRUE, err |-> NoError, servers |-> Insert(srvs, name, s.server)]

\* Mutant: remove_server reports success and removes nothing.
DBusRunner_remove_server_keep(srvs, name) ==
    IF name \in DOMAIN srvs
    THEN [ok |-> TRUE, err |-> NoError, servers |-> srvs]
    ELSE [ok |-> FALSE, err |-> Error("NoSuchServer", name), servers |-> srvs]

DBusRunner_remove_server(srvs, name) ==
    IF name \in DOMAIN srvs
    THEN [ok |-> TRUE, err |-> NoError,
          servers |-> [x \in (DOMAIN srvs) \ {name} |-> srvs[x]]]
    ELSE [ok |-> FALSE, err |-> Error("NoSuchServer", name), servers |-> srvs]

\* An item of conn.iter(timeout).
ConnectionItem(kind, m) == [kind |-> kind, msg |-> m]
Nothing == ConnectionItem("Nothing", NoMessage)

\* What one turn of the loop of run did: opt is whether the fold still holds
\* the message (Some), panic whether the thread unwound, offered the servers
\* whose handle_message was called, in order, claimed those whose registry
\* returned Some, calls and sent as in HandleOut.
RunOut(opt, panic, offered, claimed, calls, sent, c) ==
    [opt |-> opt, panic |-> panic, offered |-> offered, claimed |-> claimed,
     calls |-> calls, sent |-> sent, cells |-> c]

\* The fold's accumulator after the server name was offered the message
\* and its handle_message came back with h.
Offered(acc, name, h) ==
    RunOut(GivenBack(h), h.val = "Panic", Append(acc.offered, name),
           IF h.val \in {"SomeOk", "SomeErr"} THEN Append(acc.claimed, name) ELSE acc.claimed,
           acc.calls \o h.calls, acc.sent \o h.sent, h.cells)

\* Mutant: the message is offered to a server whether or not an earlier one
\* took it.
Offer_always(acc, name, server, m, sendOk) ==
    IF acc.panic THEN acc
    ELSE Offered(acc, name, DBusServer_handle_message(server, m, sendOk, acc.cells))

\* |opt_m, (_, server)| opt_m.and_then(|m| server.handle_message(m))
Offer(acc, name, server, m, sendOk) ==
    IF ~acc.opt \/ acc.panic THEN acc
    ELSE Offered(acc, name, DBusServer_handle_message(server, m, sendOk, acc.cells))

\* Mutant: the servers are visited in descending order of their names.
ServerOrder_descending(srvs) ==
    LET k == Keys(srvs) IN [j \in 1..Len(k) |-> k[Len(k) + 1 - j]]
\* servers.iter_mut(): a BTreeMap iterates in ascending order of its keys.
ServerOrder(srvs) == Keys(srvs)

\* servers.iter_mut().fold(Some(m), ..)
RECURSIVE FoldServers(_, _, _, _, _)
FoldServers(acc, names, srvs, m, sendOk) ==
    IF names = <<>> THEN acc
    ELSE FoldServers(Offer(acc, Head(names), srvs[Head(names)], m, sendOk),
                     Tail(names), srvs, m, sendOk)

\* The body of the loop of run for one item.
DBusRunner_run_item(srvs, item, sendOk, c) ==
    IF item.kind = "Nothing" THEN RunOut(FALSE, FALSE, <<>>, <<>>, <<>>, <<>>, c)
    ELSE FoldServers(RunOut(TRUE, FALSE, <<>>, <<>>, <<>>, <<>>, c),
                     ServerOrder(srvs), srvs, item.msg, sendOk)

\* Inbound items: calls to application methods, to methods nobody has, to
\* the standard interfaces and without a target; signals; Nothing.
RunnerCalls ==
    {InMessage(s, CallHeaders("com.example.B", "m"), Body(<<V1>>)) : s \in 1..MaxSerial}
    \cup {InMessage(1, t, Body(<<V1>>)) :
            t \in {NoHeaders, CallHeaders("com.example.A", "m"),
                   CallHeaders("com.example.B", "zz"), CallHeaders(PeerName, "Ping")}}
    \cup {InMessage(1, CallHeaders(PropertiesName, "GetAll"), Body(<<StrV("com.example.A")>>)),
          InMessage(1, CallHeaders(IntrospectableName, "Introspect"), NoBody)}
Items ==
    {ConnectionItem("MethodCall", m) : m \in RunnerCalls}
    \cup {ConnectionItem("Signal", InMessage(1, NoHeaders, Body(<<V1>>)))}
    \cup {Nothing}

----------------------------------------------------------------------------
(* The state machine *)

\* The record of the last operation.  pre and preFinalized are the map and the
\* flag before a builder call (add_interface, finalize); handle, which takes
\* &self and changes neither, records an empty pre.  name and arg are the
\* arguments of add_interface, added the names the call inserted, in order.
Last(op, name, arg, val, err, pre, preFinalized, added, msg, h) ==
    [op |-> op, name |-> name, arg |-> arg, val |-> val, err |-> err, pre |-> pre,
     preFinalized |-> preFinalized, added |-> added, msg |-> msg,
     ran |-> h.ran, hres |-> h.hres, calls |-> h.calls, sent |-> h.sent]

NoHandle == HandleOut("", FALSE, Err(NoErr), <<>>, <<>>, InitCells)

\* The record of the last multiplexer operation.  name, val, err and pre (the
\* server map before the call) are those of an add_server, remove_server or
\* set-up, built whether DBusServer::new succeeded in an add_server; item, offered, claimed, calls, sent and panic those of a turn of
\* the loop; prev is the item, the servers offered it and the server that
\* claimed it of the latest turn before the operation in which a server
\* claimed the item; gone are the names remove_server removed since the
\* latest turn and add_server has not inserted again.
RLast(op, name, built, val, err, pre, item, out, prev, gone) ==
    [op |-> op, name |-> name, built |-> built, val |-> val, err |-> err, pre |-> pre,
     item |-> item,
     offered |-> out.offered, claimed |-> out.claimed, calls |-> out.calls,
     sent |-> out.sent, panic |-> out.panic, prev |-> prev, gone |-> gone]

NoRun == RunOut(FALSE, FALSE, <<>>, <<>>, <<>>, <<>>, InitCells)
Turn(item, offered, claimed) == [item |-> item, offered |-> offered, claimed |-> claimed]
Prev ==
    IF rlast.op = "run" /\ rlast.claimed # <<>>
    THEN Turn(rlast.item, rlast.offered, rlast.claimed)
    ELSE rlast.prev
Gone == IF rlast.op = "run" THEN {} ELSE rlast.gone

\* Where the loop of run stands.  pc is "iter" between two turns of the outer
\* fold, "fold" inside the fold over the servers and "send" inside a server's
\* handle between the method closure and conn.send; item is the item of the
\* turn, todo the servers the inner fold has not visited yet, opt whether the
\* fold still holds the message, reply the message built from the closure's
\* result; fetched counts the items the connection yielded, inproc are the
\* items (by their count) whose turn has begun and not ended, events the
\* steps taken so far, each with the item it is about.
LoopState(pc, item, todo, opt, reply, fetched, inproc, events) ==
    [pc |-> pc, item |-> item, todo |-> todo, opt |-> opt, reply |-> reply,
     fetched |-> fetched, inproc |-> inproc, events |-> events]
Event(ev, k) == [ev |-> ev, k |-> k]
LoopIdle == LoopState("iter", Nothing, <<>>, FALSE, NoMessage, 0, {}, <<>>)

\* A direct call of IntrospectableInterface::introspect(map, children, m):
\* the children list it was given and what it returned.
Intro(called, children, h) ==
    [called |-> called, children |-> children, panic |-> h.panic, res |-> h.res]
IntroNone == Intro(FALSE, <<>>, HOut(FALSE, Err(NoErr), InitCells, <<>>))

\* An Interface under construction: the value the builder calls hand on, and
\* the members given to add_method, add_property and add_signal so far, each
\* with its name, in the order of the calls.
Builder(iface, ms, ps, ss) == [iface |-> iface, methods |-> ms, properties |-> ps, signals |-> ss]
Named(name, member) == [name |-> name, member |-> member]
BuilderNew == Builder(Interface_new, <<>>, <<>>, <<>>)

RunnerInit ==
    /\ servers = EmptyMap
    /\ rlast = RLast("new", "", FALSE, "Ok", NoError, EmptyMap, Nothing, NoRun,
                     Turn(Nothing, <<>>, <<>>), {})

Init ==
    /\ RunnerInit
    /\ map = Interfaces_new.map
    /\ finalized = Interfaces_new.finalized
    /\ live = TRUE
    /\ panicked = FALSE
    /\ cells = InitCells
    /\ last = Last("new", "", Interface_new, "Ok", NoError, EmptyMap, FALSE, <<>>, NoMessage, NoHandle)
    /\ loop = LoopIdle
    /\ intro = IntroNone
    /\ builder = BuilderNew

\* self.add_interface(n, i): consumes self, gives it back on Ok.
AddInterface(n, i) ==
    /\ live /\ ~panicked
    /\ finalized \/ n \in DOMAIN map \/ Cardinality(DOMAIN map) < MaxIfaces
    /\ LET r == Interfaces_add_interface(Self, n, i)
       IN  /\ map' = r.self.map
           /\ finalized' = r.self.finalized
           /\ live' = r.ok
           /\ last' = Last("add_interface", n, i, IF r.ok THEN "Ok" ELSE "Err", r.err, map, finalized,
                           IF r.ok THEN <<n>> ELSE <<>>, NoMessage, NoHandle)
    /\ UNCHANGED <<panicked, cells, servers, rlast, loop, intro, builder>>

\* self.finalize(children): consumes self, gives it back on Ok.
Finalize ==
    /\ live /\ ~panicked
    /\ LET r == Interfaces_finalize(Self, Children)
       IN  /\ map' = r.self.map
           /\ finalized' = r.self.finalized
           /\ live' = r.ok
           /\ last' = Last("finalize", "", Interface_new, IF r.ok THEN "Ok" ELSE "Err", r.err, map, finalized,
                           FinalizeAdded(Self, Children), NoMessage, NoHandle)
    /\ UNCHANGED <<panicked, cells, servers, rlast, loop, intro, builder>>

\* self.handle(conn, msg); sendOk is whether Connection::send succeeds, when
\* it is called.
Handle(m, sendOk) ==
    /\ live /\ ~panicked
    /\ sendOk \/ Interfaces_handle(Self, m, TRUE, cells).sent # <<>>
    /\ LET h == Interfaces_handle(Self, m, sendOk, cells)
       IN  /\ cells' = h.cells
           /\ panicked' = (h.val = "Panic")
           /\ last' = Last("handle", "", Interface_new, h.val, NoError, EmptyMap, finalized, <<>>, m, h)
    /\ UNCHANGED <<map, finalized, live, servers, rlast, loop, intro, builder>>

Next ==
    \/ \E n \in IfaceNames : \E i \in UserIfaces(n) : AddInterface(n, i)
    \/ Finalize
    \/ \E m \in Messages : \E sendOk \in BOOLEAN : Handle(m, sendOk)

Spec == Init /\ [][Next]_vars

\* runner.add_server(name); ok is whether DBusServer::new succeeds, when it is
\* called.
AddServer(name, ok) ==
    /\ ~panicked
    /\ ok \/ name \notin DOMAIN servers
    /\ LET r == DBusRunner_add_server(servers, name, ok)
       IN  /\ servers' = r.servers
           /\ rlast' = RLast("add_server", name, ok /\ name \notin DOMAIN servers, IF r.ok THEN "Ok" ELSE "Err", r.err, servers,
                             Nothing, NoRun, Prev,
                             IF r.ok THEN Gone \ {name} ELSE Gone)
    /\ UNCHANGED <<map, finalized, live, panicked, cells, last, loop, intro, builder>>

\* runner.remove_server(name)
RemoveServer(name) ==
    /\ ~panicked
    /\ LET r == DBusRunner_remove_server(servers, name)
       IN  /\ servers' = r.servers
           /\ rlast' = RLast("remove_server", name, FALSE, IF r.ok THEN "Ok" ELSE "Err", r.err, servers,
                             Nothing, NoRun, Prev,
                             IF r.ok THEN Gone \cup {name} ELSE Gone)
    /\ UNCHANGED <<map, finalized, live, panicked, cells, last, loop, intro, builder>>

\* The application sets up the server add_server gave it.
SetupServer(name, u) ==
    /\ ~panicked
    /\ name \in DOMAIN servers
    /\ ~servers[name].reg.finalized
    /\ servers' = [servers EXCEPT ![name] = DBusServer_setup(@, u)]
    /\ rlast' = RLast("setup", name, FALSE, "Ok", NoError, EmptyMap,
                      Nothing, NoRun, Prev, Gone)
    /\ UNCHANGED <<map, finalized, live, panicked, cells, last, loop, intro, builder>>

\* One turn of the loop of runner.run(timeout): conn.iter yields item.  The
\* application runs the loop once every server it added is set up.
Run(item, sendOk) ==
    /\ ~panicked
    /\ \A s \in DOMAIN servers : servers[s].reg.finalized
    /\ sendOk \/ DBusRunner_run_item(servers, item, TRUE, cells).sent # <<>>
    /\ \E r \in {DBusRunner_run_item(servers, item, sendOk, cells)} :
           /\ cells' = r.cells
           /\ panicked' = r.panic
           /\ rlast' = RLast("run", "", FALSE, IF sendOk THEN "Ok" ELSE "Err", NoError, EmptyMap,
                             item, r, Prev, Gone)
    /\ UNCHANGED <<map, finalized, live, last, servers, loop, intro, builder>>

RunnerNext ==
    \/ \E name \in ServerNames : \E ok \in BOOLEAN : AddServer(name, ok)
    \/ \E name \in ServerNames : RemoveServer(name)
    \/ \E name \in ServerNames : \E u \in ServerSetups(name) : SetupServer(name, u)
    \/ \E item \in Items : \E sendOk \in BOOLEAN : Run(item, sendOk)

SpecRunner == Init /\ [][RunnerNext]_vars

----------------------------------------------------------------------------
(* The loop of run, step by step *)

\* A server the application added and set up with the interfaces of u.
Ready(name, u) == DBusServer_setup(DBusServer_new(name, TRUE).server, u)

\* The server maps the loop is started with: registration is complete and
\* every registry is finalized.
LoopServers ==
    {[s \in {"srv.a", "srv.b"} |-> Ready(s, IF s = "srv.a" THEN ua ELSE ub)] :
        ua \in ServerSetups("srv.a"), ub \in ServerSetups("srv.b")}

LoopInit ==
    /\ servers \in LoopServers
    /\ rlast = RLast("new", "", FALSE, "Ok", NoError, EmptyMap, Nothing, NoRun,
                     Turn(Nothing, <<>>, <<>>), {})
    /\ map = Interfaces_new.map
    /\ finalized = Interfaces_new.finalized
    /\ live = TRUE
    /\ panicked = FALSE
    /\ cells = InitCells
    /\ last = Last("new", "", Interface_new, "Ok", NoError, EmptyMap, FALSE, <<>>, NoMessage, NoHandle)
    /\ loop = LoopIdle
    /\ intro = IntroNone
    /\ builder = BuilderNew

\* Mutant: the connection yields the next item while the turn of the earlier
\* one is still under way.
Iter_next_ahead(item) ==
    /\ ~panicked
    /\ loop.fetched < MaxItems
    /\ LET k == loop.fetched + 1
       IN  loop' = IF item.kind = "Nothing"
                   THEN [loop EXCEPT !.fetched = k, !.events = Append(@, Event("fetch", k))]
                   ELSE LoopState("fold", item, ServerOrder(servers), TRUE, NoMessage, k,
                                  loop.inproc \cup {k}, Append(loop.events, Event("fetch", k)))
    /\ UNCHANGED <<map, finalized, live, panicked, cells, last, servers, rlast, intro, builder>>

\* conn.iter(timeout) yields item to the closure of the outer fold: Nothing
\* maps to None and the turn is over, a call or a signal starts the fold over
\* the servers with Some(m).
Iter_next(item) ==
    /\ ~panicked
    /\ loop.pc = "iter"
    /\ loop.fetched < MaxItems
    /\ LET k == loop.fetched + 1
       IN  loop' = IF item.kind = "Nothing"
                   THEN [loop EXCEPT !.fetched = k, !.events = Append(@, Event("fetch", k))]
                   ELSE LoopState("fold", item, ServerOrder(servers), TRUE, NoMessage, k,
                                  loop.inproc \cup {k}, Append(loop.events, Event("fetch", k)))
    /\ UNCHANGED <<map, finalized, live, panicked, cells, last, servers, rlast, intro, builder>>

\* opt_m.and_then(|m| server.handle_message(m)) with opt_m = Some(m), up to
\* conn.send: the registry has no such method and the message is given back,
\* or the method's closure runs and either unwinds or returns the result the
\* reply is built from.
Fold_handler ==
    /\ ~panicked
    /\ loop.pc = "fold" /\ loop.todo # <<>> /\ loop.opt
    /\ \E h \in {DBusServer_handle_message(servers[Head(loop.todo)], loop.item.msg, TRUE, cells)} :
           /\ cells' = h.cells
           /\ panicked' = (h.val = "Panic")
           /\ loop' = IF GivenBack(h) THEN [loop EXCEPT !.todo = Tail(@)]
                       ELSE IF h.val = "Panic"
                       THEN [loop EXCEPT !.events = Append(@, Event("handler", loop.fetched))]
                       ELSE [loop EXCEPT !.pc = "send", !.reply = h.sent[1],
                                         !.events = Append(@, Event("handler", loop.fetched))]
    /\ UNCHANGED <<map, finalized, live, last, servers, rlast, intro, builder>>

\* conn.send(msg) in handle, which then returns Some: the fold holds None
\* from here on.
Fold_send(sendOk) ==
    /\ ~panicked
    /\ loop.pc = "send"
    /\ loop' = [loop EXCEPT !.pc = "fold", !.todo = Tail(@), !.opt = FALSE, !.reply = NoMessage,
                             !.events = Append(@, Event(IF sendOk THEN "sent" ELSE "send_failed",
                                                        loop.fetched))]
    /\ UNCHANGED <<map, finalized, live, panicked, cells, last, servers, rlast, intro, builder>>

\* opt_m.and_then(..) with opt_m = None: the server is passed over.
Fold_skip ==
    /\ ~panicked
    /\ loop.pc = "fold" /\ loop.todo # <<>> /\ ~loop.opt
    /\ loop' = [loop EXCEPT !.todo = Tail(@)]
    /\ UNCHANGED <<map, finalized, live, panicked, cells, last, servers, rlast, intro, builder>>

\* The fold over the servers is through: the closure of the outer fold
\* returns and the iterator is asked for the next item.
Fold_end ==
    /\ ~panicked
    /\ loop.pc = "fold" /\ loop.todo = <<>>
    /\ loop' = [loop EXCEPT !.pc = "iter", !.inproc = @ \ {loop.fetched},
                             !.events = Append(@, Event("end", loop.fetched))]
    /\ UNCHANGED <<map, finalized, live, panicked, cells, last, servers, rlast, intro, builder>>

LoopNext ==
    \/ \E item \in Items : Iter_next(item)
    \/ Fold_handler
    \/ \E sendOk \in BOOLEAN : Fold_send(sendOk)
    \/ Fold_skip
    \/ Fold_end

SpecLoop == LoopInit /\ [][LoopNext]_vars

----------------------------------------------------------------------------
(* The rendering of the introspection document, applied to drawn inputs *)

\* An interface with members of every kind, added in an order that is not
\* that of their names, with arguments declared in an order that is not that
\* of their names, and with annotations.
DocIface ==
    LET deprecated == Annotation_new("org.freedesktop.DBus.Deprecated", "true")
        noreply == Annotation_new("org.freedesktop.DBus.Method.NoReply", "true")
        m == Method_annotate(Method_annotate(
                 Method_add_result(Method_add_argument(Method_add_result(Method_add_argument(
                     Method_new(Cb("user", "q.m", "")),
                     Argument_new("y", "s")), Argument_new("r2", "i")),
                     Argument_new("x", "i")), Argument_new("r1", "s")),
                 noreply), deprecated)
        n == Method_add_result(Method_new(Cb("user", "q.n", "")), Argument_new("r", "s"))
        sb == Signal_annotate(Signal_add_argument(Signal_add_argument(Signal_new,
                  Argument_new("b", "s")), Argument_new("a", "i")), deprecated)
        sa == Signal_new
    IN  add_signal(add_signal(
        add_method(add_method(
        add_property(add_property(add_property(Interface_new,
            "wo", new_wo("i", HandlerId("com.example.A", "wo"))),
            "ro", Property_annotate(Property_annotate(new_ro("s", HandlerId("com.example.A", "ro")),
                                                      noreply), deprecated)),
            "rw", new_rw("s", HandlerId("com.example.A", "rw"))),
            "n", n), "m", m),
            "sig.b", sb), "sig.a", sa)

\* The registries the document is rendered from: up to MaxIfaces interfaces.
DocIfaces == {Interface_new, DocIface, MethIface("com.example.A"), PropIface("com.example.A")}
IntrospectMaps ==
    UNION {[D -> DocIfaces] : D \in {S \in SUBSET {"com.example.A", "com.example.B", PeerName} :
                                    Cardinality(S) <= MaxIfaces}}
ChildrenLists == {<<>>, <<"child0">>, <<"child0", "child1">>, <<"child1", "child0">>}

IntrospectInit ==
    /\ map \in IntrospectMaps
    /\ finalized = FALSE
    /\ live = TRUE
    /\ panicked = FALSE
    /\ cells = InitCells
    /\ last = Last("new", "", Interface_new, "Ok", NoError, EmptyMap, FALSE, <<>>, NoMessage, NoHandle)
    /\ servers = EmptyMap
    /\ rlast = RLast("new", "", FALSE, "Ok", NoError, EmptyMap, Nothing, NoRun,
                     Turn(Nothing, <<>>, <<>>), {})
    /\ loop = LoopIdle
    /\ intro = IntroNone
    /\ builder = BuilderNew

\* IntrospectableInterface::introspect(&map, &children, msg), called with no
\* borrow of the map outstanding.
Introspect(children) ==
    /\ intro' = Intro(TRUE, children,
                      IntrospectableInterface_introspect(MapRc, children, "free", cells))
    /\ UNCHANGED <<map, finalized, live, panicked, cells, last, servers, rlast, loop, builder>>

IntrospectNext == \E children \in ChildrenLists : Introspect(children)

SpecIntrospect == IntrospectInit /\ [][IntrospectNext]_vars

----------------------------------------------------------------------------
(* Building an Interface *)

\* The members the application adds: under some names two different ones.
MethodChoices ==
    {Named("m", Method_add_argument(Method_new(Cb("user", "q.m", "")), Argument_new("x", "s"))),
     Named("m", Method_new(Cb("user", "q.n", ""))),
     Named("n", Method_new(Cb("user", "p.m", "")))}
PropertyChoices ==
    {Named("ro", new_ro("s", HandlerId("com.example.A", "ro"))),
     Named("ro", new_rw("i", HandlerId("com.example.A", "rw"))),
     Named("wo", new_wo("s", HandlerId("com.example.A", "wo")))}
SignalChoices ==
    {Named("sig.a", Signal_new),
     Named("sig.a", Signal_add_argument(Signal_new, Argument_new("a", "i"))),
     Named("sig.b", Signal_new)}

\* The Interface is built before it is handed to add_interface, which takes
\* it by value.
Building ==
    /\ "com.example.A" \notin DOMAIN map
    /\ Len(builder.methods) + Len(builder.properties) + Len(builder.signals) < MaxAdds

AddMethod(a) ==
    /\ Building
    /\ builder' = [builder EXCEPT !.iface = add_method(@, a.name, a.member),
                               !.methods = Append(@, a)]
    /\ UNCHANGED <<map, finalized, live, panicked, cells, last, servers, rlast, loop, intro>>

AddProperty(a) ==
    /\ Building
    /\ builder' = [builder EXCEPT !.iface = add_property(@, a.name, a.member),
                               !.properties = Append(@, a)]
    /\ UNCHANGED <<map, finalized, live, panicked, cells, last, servers, rlast, loop, intro>>

AddSignal(a) ==
    /\ Building
    /\ builder' = [builder EXCEPT !.iface = add_signal(@, a.name, a.member),
                               !.signals = Append(@, a)]
    /\ UNCHANGED <<map, finalized, live, panicked, cells, last, servers, rlast, loop, intro>>

\* Calls to the methods of the interface once it is registered.
BuilderCalls ==
    {InMessage(1, CallHeaders("com.example.A", m), Body(<<V1>>)) : m \in {"m", "n"}}

BuilderNext ==
    \/ \E a \in MethodChoices : AddMethod(a)
    \/ \E a \in PropertyChoices : AddProperty(a)
    \/ \E a \in SignalChoices : AddSignal(a)
    \/ AddInterface("com.example.A", builder.iface)
    \/ "com.example.A" \in DOMAIN map /\ \E m \in BuilderCalls : \E sendOk \in BOOLEAN : Handle(m, sendOk)
    \/ "com.example.A" \in DOMAIN map /\ Introspect(Children)

SpecBuilder == Init /\ [][BuilderNext]_vars

----------------------------------------------------------------------------
(* Shorthands for the claims *)

Handled == last.op = "handle"
Target == call_headers(last.msg)
\* The call's target is a method of an interface in the registry.
Resolves ==
    /\ Target.present
    /\ Target.interface \in DOMAIN map
    /\ Target.method \in DOMAIN map[Target.interface].methods
Returned == last.val \in {"None", "SomeOk", "SomeErr"}
Claimed == last.val \in {"SomeOk", "SomeErr"}
\* A Properties call on the finalized registry with the given argument list.
PropsCall(method, args) ==
    /\ Handled /\ finalized
    /\ Target = CallHeaders(PropertiesName, method)
    /\ last.msg.body = Body(args)
\* The property handlers invoked by the last operation.
HandlerCalls == {j \in 1..Len(last.calls) : last.calls[j].op \in {"get", "set"}}
IfaceA == "com.example.A"
HasPropIface == IfaceA \in DOMAIN map /\ map[IfaceA] = PropIface(IfaceA)

----------------------------------------------------------------------------
(* C1: handle returns None exactly when the message has no call target, or *)
(* its interface is not in the registry, or its method is not in that      *)
(* interface; then no closure is invoked and nothing is sent.  In every    *)
(* other case it returns Some.                                             *)
C1_NoneIffNoTarget ==
    Handled =>
        /\ (last.val = "None") <=> ~Resolves
        /\ ~Resolves => (~last.ran /\ last.calls = <<>> /\ last.sent = <<>>)
        /\ Resolves => Claimed

(* C2: when the dispatched closure returns Ok(values), exactly one message  *)
(* is handed to Connection::send: a method return for the serial of the    *)
(* call whose arguments are the returned values in the same order.         *)
C2_OkGivesOneReturn ==
    (Handled /\ Returned /\ last.ran /\ last.hres.ok) =>
        /\ Len(last.sent) = 1
        /\ last.sent[1].type = "method_return"
        /\ last.sent[1].reply_serial = last.msg.serial
        /\ last.sent[1].args = last.hres.vals

\* A closure returned two different values and the call was not the first serial.
C2_Witness ==
    /\ Handled /\ Returned /\ last.ran /\ last.hres.ok
    /\ Len(last.hres.vals) = 2 /\ last.hres.vals[1] # last.hres.vals[2]
    /\ last.msg.serial = 2

(* C3: when the dispatched closure returns Err(ErrorMessage{name, message}) *)
(* exactly one message is handed to Connection::send: an error for the     *)
(* serial of the call, carrying that name and one argument, the message    *)
(* string; handle returns Some and the thread does not unwind.             *)
C3_ErrGivesOneError ==
    (Handled /\ Returned /\ last.ran /\ ~last.hres.ok) =>
        /\ Len(last.sent) = 1
        /\ last.sent[1].type = "error"
        /\ last.sent[1].reply_serial = last.msg.serial
        /\ last.sent[1].error_name = last.hres.err.name
        /\ last.sent[1].args = <<StrV(last.hres.err.message)>>
        /\ Claimed /\ ~panicked /\ live

\* An application closure failed with its own error name.
C3_Witness ==
    /\ Handled /\ Returned /\ last.ran /\ ~last.hres.ok
    /\ last.hres.err = UserErr
    /\ last.msg.serial = 2

(* C4: for the ReadOnly property ro of a registered interface whose reader *)
(* returns V, Properties.Get(iface, ro) on the finalized registry returns  *)
(* [V]; Properties.Set(iface, ro, x) fails with Failed "property is        *)
(* read-only", invokes no writer and leaves the reader's value as it was.  *)
C4_ReadOnlyGetSet ==
    /\ (PropsCall("Get", <<StrV(IfaceA), StrV("ro")>>) /\ HasPropIface) =>
            /\ Claimed
            /\ last.hres = Ok(<<cells[HandlerId(IfaceA, "ro")]>>)
    /\ \A x \in {V1, IntV("7")} :
        (PropsCall("Set", <<StrV(IfaceA), StrV("ro"), x>>) /\ HasPropIface) =>
            /\ Claimed
            /\ last.hres = Err(ErrorMessage_new("org.freedesktop.DBus.Error.Failed",
                                                "property is read-only: ro"))
            /\ HandlerCalls = {}
            /\ cells = InitCells

(* C5: after a successful finalize, add_interface fails with the           *)
(* registry-finalized error for any name, registered or not, and the       *)
(* interface map is unchanged.                                             *)
C5_AddAfterFinalize ==
    (last.op = "add_interface" /\ last.preFinalized) =>
        /\ last.val = "Err"
        /\ last.err = Error("InterfacesFinalized", last.name)
        /\ map = last.pre
        /\ finalized

\* add_interface on a finalized registry under a name that is registered.
C5_Witness ==
    /\ last.op = "add_interface" /\ last.preFinalized
    /\ last.name \in DOMAIN last.pre

(* C6: on an unfinalized registry add_interface(n, i) inserts i under n    *)
(* and succeeds when n is not registered, and fails with                   *)
(* InterfaceAlreadyRegistered(n) when it is, leaving the interface stored  *)
(* under n in place.                                                       *)
C6_AddUnfinalized ==
    (last.op = "add_interface" /\ ~last.preFinalized) =>
        IF last.name \in DOMAIN last.pre
        THEN /\ last.val = "Err"
             /\ last.err = Error("InterfaceAlreadyRegistered", last.name)
             /\ map = last.pre
        ELSE /\ last.val = "Ok"
             /\ map = Insert(last.pre, last.name, last.arg)
             /\ ~finalized

\* A second registration under a name, with another interface than the one
\* stored, on a registry that holds two names.
C6_Witness ==
    /\ last.op = "add_interface" /\ ~last.preFinalized
    /\ last.name \in DOMAIN last.pre
    /\ last.arg # last.pre[last.name]
    /\ Cardinality(DOMAIN map) = 2

(* C7: when one of the three injections of finalize fails, finalized stays *)
(* false and the shared map holds exactly the interfaces it held before    *)
(* the call.                                                               *)
C7_FinalizeAtomic ==
    (last.op = "finalize" /\ ~last.preFinalized /\ last.val = "Err") =>
        /\ ~finalized
        /\ map = last.pre

\* The Rcs captured by the closures of the interface stored under n.
CapturedRcs(n) == {map[n].methods[m].cb.rc : m \in DOMAIN map[n].methods}

(* C8: a successful finalize adds Peer, Properties and Introspectable, in  *)
(* that order, and sets finalized; the registry then holds the interfaces  *)
(* it held plus those three, and the closures of Properties and            *)
(* Introspectable hold the registry's own map, in which they see the       *)
(* application's interfaces and each other.                                *)
C8_FinalizeInjects ==
    (last.op = "finalize" /\ last.val = "Ok") =>
        /\ finalized
        /\ last.added = <<PeerName, PropertiesName, IntrospectableName>>
        /\ DOMAIN last.pre \cap StdNames = {}
        /\ DOMAIN map = DOMAIN last.pre \cup StdNames
        /\ \A n \in DOMAIN last.pre : map[n] = last.pre[n]
        /\ DOMAIN map[PeerName].methods = {"Ping", "GetMachineId"}
        /\ DOMAIN map[PropertiesName].methods = {"Get", "Set", "GetAll"}
        /\ DOMAIN map[IntrospectableName].methods = {"Introspect"}
        /\ CapturedRcs(PropertiesName) = {Self.rc}
        /\ CapturedRcs(IntrospectableName) = {Self.rc}
        /\ \A rc \in CapturedRcs(PropertiesName) \cup CapturedRcs(IntrospectableName) :
                DOMAIN Deref(rc) = DOMAIN last.pre \cup StdNames

\* finalize succeeded on a registry that held two application interfaces.
C8_Witness ==
    /\ last.op = "finalize" /\ last.val = "Ok"
    /\ Cardinality(DOMAIN last.pre) = 2

(* C9: for the WriteOnly property wo, Properties.Get(iface, wo) fails with *)
(* Failed "property is write-only" without invoking a handler of wo;       *)
(* Set(iface, wo, x) delegates to the writer and on success returns an     *)
(* empty list; GetAll(iface) succeeds with a dictionary that has no key wo.*)
C9_WriteOnly ==
    /\ (PropsCall("Get", <<StrV(IfaceA), StrV("wo")>>) /\ HasPropIface) =>
            /\ Claimed
            /\ last.hres = Err(ErrorMessage_new("org.freedesktop.DBus.Error.Failed",
                                                "property is write-only: wo"))
            /\ HandlerCalls = {}
    /\ (PropsCall("Set", <<StrV(IfaceA), StrV("wo"), V1>>) /\ HasPropIface) =>
            /\ Claimed
            /\ last.hres = Ok(<<>>)
            /\ \E j \in HandlerCalls : last.calls[j] = Call("set", HandlerId(IfaceA, "wo"))
    /\ (PropsCall("GetAll", <<StrV(IfaceA)>>) /\ HasPropIface) =>
            /\ Claimed
            /\ last.hres.ok
            /\ Len(last.hres.vals) = 1
            /\ "wo" \notin DOMAIN last.hres.vals[1].d

(* C10: Properties.Get, Set and GetAll fail with UnknownInterface when the *)
(* named interface is not in the registry, and Get and Set fail with       *)
(* UnknownProperty when the interface does not declare the property; no    *)
(* property reader or writer is invoked.                                   *)
C10_UnknownInterfaceOrProperty ==
    /\ \A args \in ArgLists :
        (/\ \E m \in {"Get", "Set", "GetAll"} : PropsCall(m, args)
         /\ last.ran
         /\ Len(args) >= 1 /\ args[1].t = "s" /\ args[1].s \notin DOMAIN map
         /\ Len(args) >= 2 => args[2].t = "s"
         /\ Len(args) = (CASE Target.method = "Get" -> 2 [] Target.method = "Set" -> 3 [] OTHER -> 1)) =>
            /\ Claimed
            /\ last.hres = Err(ErrorMessage_new("org.freedesktop.DBus.Error.UnknownInterface",
                                                "unknown interface: " \o args[1].s))
            /\ HandlerCalls = {}
    /\ \A x \in {<<>>, <<V1>>} :
        (/\ \E m \in {"Get", "Set"} : PropsCall(m, <<StrV(IfaceA), StrV("zz")>> \o x)
         /\ last.ran /\ HasPropIface
         /\ Len(x) = (IF Target.method = "Get" THEN 0 ELSE 1)) =>
            /\ Claimed
            /\ last.hres = Err(ErrorMessage_new("org.freedesktop.DBus.Error.UnknownProperty",
                                                "unknown property: zz"))
            /\ HandlerCalls = {}

----------------------------------------------------------------------------
(* Shorthands for the claims about the multiplexer *)

Ran == rlast.op = "run"
RTarget == call_headers(rlast.item.msg)
\* The target of the last item is a method of an interface of server s.
ServerResolves(s) ==
    /\ RTarget.present
    /\ RTarget.interface \in DOMAIN servers[s].reg.map
    /\ RTarget.method \in DOMAIN servers[s].reg.map[RTarget.interface].methods
\* The place of a name in the order of String.
NameIndex(n) == CHOOSE j \in 1..Len(SortedNames) : SortedNames[j] = n
Before(a, b) == NameIndex(a) < NameIndex(b)

(* C11: a turn of the loop of run offers a call or a signal to the servers *)
(* one at a time in ascending order of their names, starting with the      *)
(* first, and stops at the first server that claims it: at most one server *)
(* claims an item, and it is the last one offered it.  An item every       *)
(* server declines was offered to all of them and nothing is sent for it.  *)
(* A Nothing item is offered to no server.                                 *)
C11_OfferInOrder ==
    Ran =>
        /\ \A j \in 1..Len(rlast.offered) : rlast.offered[j] \in DOMAIN servers
        /\ \A j \in 1..Len(rlast.offered) : \A k \in 1..Len(rlast.offered) :
                j < k => Before(rlast.offered[j], rlast.offered[k])
        /\ \A j \in 1..Len(rlast.offered) : \A s \in DOMAIN servers :
                Before(s, rlast.offered[j]) => \E k \in 1..j : rlast.offered[k] = s
        /\ Len(rlast.claimed) <= 1
        /\ rlast.claimed # <<>> => rlast.claimed[1] = rlast.offered[Len(rlast.offered)]
        /\ (rlast.claimed = <<>> /\ ~rlast.panic /\ rlast.item.kind # "Nothing") =>
                /\ Len(rlast.offered) = Cardinality(DOMAIN servers)
                /\ rlast.sent = <<>>
        /\ rlast.claimed = <<>> => rlast.sent = <<>>
        /\ rlast.item.kind = "Nothing" =>
                (rlast.offered = <<>> /\ rlast.calls = <<>> /\ rlast.sent = <<>>)

\* Three servers, added in another order than that of their names; the first
\* two declined a call and the third claimed it.
C11_Witness ==
    /\ Ran /\ rlast.item.kind = "MethodCall"
    /\ rlast.offered = <<"srv.a", "srv.b", "srv.c">>
    /\ rlast.claimed = <<"srv.c">>

\* The servers whose registry has the target of the last item.
Resolvers == {s \in DOMAIN servers : ServerResolves(s)}
\* The last item is a call to a method of an application interface.
UserCall ==
    /\ Ran /\ rlast.item.kind = "MethodCall"
    /\ RTarget.present /\ RTarget.interface \in UserNames

(* C12: a server whose registry does not have the target of a call         *)
(* declines it (its handle returns None) and the call goes on to the next  *)
(* server; the first server in name order that has the target accepts it   *)
(* and one reply is sent.  When no server of the map has the target, and   *)
(* so after remove_server took away the server that had it, no server      *)
(* accepts the call and no reply is sent; a removed server is offered      *)
(* nothing.  (Targets are methods of application interfaces.)              *)
C12_OnlyOwnerAccepts ==
    /\ Ran => \A s \in rlast.gone : \A j \in 1..Len(rlast.offered) : rlast.offered[j] # s
    /\ UserCall =>
        /\ \A j \in 1..Len(rlast.claimed) : rlast.claimed[j] \in Resolvers
        /\ \A j \in 1..Len(rlast.offered) :
                rlast.offered[j] \notin Resolvers => rlast.claimed # <<rlast.offered[j]>>
        /\ Resolvers = {} => (rlast.claimed = <<>> /\ rlast.sent = <<>> /\ rlast.calls = <<>>)
        /\ Resolvers # {} =>
                /\ Len(rlast.claimed) = 1 /\ Len(rlast.sent) = 1
                /\ \A s \in Resolvers : s # rlast.claimed[1] => Before(rlast.claimed[1], s)
                /\ \A s \in DOMAIN servers :
                        Before(s, rlast.claimed[1]) =>
                            \E j \in 1..Len(rlast.offered) : rlast.offered[j] = s

\* srv.a declined a call and srv.b accepted it; srv.b was removed, and the
\* same call was declined by srv.a and dropped.
C12_Witness ==
    /\ UserCall
    /\ rlast.prev = Turn(rlast.item, <<"srv.a", "srv.b">>, <<"srv.b">>)
    /\ "srv.b" \in rlast.gone
    /\ rlast.offered = <<"srv.a">>
    /\ rlast.claimed = <<>> /\ rlast.sent = <<>>

\* The server map without the entry of name.
Without(srvs, name) == [x \in (DOMAIN srvs) \ {name} |-> srvs[x]]
AddedServer == rlast.op = "add_server"
RemovedServer == rlast.op = "remove_server"
\* A failing add_server or remove_server left the server map as it was, and
\* remove_server behaves as claimed.
C13_RemoveAndFailures ==
    /\ (AddedServer /\ rlast.val = "Err") => servers = rlast.pre
    /\ RemovedServer =>
        IF rlast.name \in DOMAIN rlast.pre
        THEN /\ rlast.val = "Ok"
             /\ servers = Without(rlast.pre, rlast.name)
        ELSE /\ rlast.val = "Err"
             /\ rlast.err = Error("NoSuchServer", rlast.name)
             /\ servers = rlast.pre

(* C13 as stated: add_server(name) fails with ServerAlreadyRegistered(name) *)
(* when a server of that name is present and otherwise inserts a new       *)
(* server under name; remove_server(name) fails with NoSuchServer(name)    *)
(* when none is present and otherwise removes exactly that server; a       *)
(* failing call leaves the server map unchanged.                           *)
C13_AddInsertsUnlessPresent ==
    /\ C13_RemoveAndFailures
    /\ AddedServer =>
        IF rlast.name \in DOMAIN rlast.pre
        THEN /\ rlast.val = "Err"
             /\ rlast.err = Error("ServerAlreadyRegistered", rlast.name)
        ELSE /\ rlast.val = "Ok"
             /\ DOMAIN servers = DOMAIN rlast.pre \cup {rlast.name}
             /\ \A s \in DOMAIN rlast.pre : servers[s] = rlast.pre[s]

(* C13, amended: add_server(name) fails with ServerAlreadyRegistered(name)  *)
(* when a server of that name is present; otherwise it constructs a server *)
(* and, when the construction succeeds, inserts it under name, and when    *)
(* the construction fails it returns that error and inserts nothing.       *)
(* remove_server(name) fails with NoSuchServer(name) when none is present  *)
(* and otherwise removes exactly that server.  A failing call leaves the   *)
(* server map unchanged: the map has one entry per name whose add_server   *)
(* succeeded and that was not removed since.                               *)
C13_AddInsertsWhenBuilt ==
    /\ C13_RemoveAndFailures
    /\ AddedServer =>
        IF rlast.name \in DOMAIN rlast.pre
        THEN /\ rlast.val = "Err"
             /\ rlast.err = Error("ServerAlreadyRegistered", rlast.name)
        ELSE IF rlast.built
        THEN /\ rlast.val = "Ok"
             /\ DOMAIN servers = DOMAIN rlast.pre \cup {rlast.name}
             /\ \A s \in DOMAIN rlast.pre : servers[s] = rlast.pre[s]
             /\ servers[rlast.name] = DBusServer_new(rlast.name, TRUE).server
        ELSE /\ rlast.val = "Err"
             /\ rlast.err = DBusServer_new(rlast.name, FALSE).err
             /\ servers = rlast.pre

\* add_server failed in the construction of the server while the map held
\* two other servers.
C13_Witness ==
    /\ AddedServer /\ rlast.val = "Err" /\ ~rlast.built
    /\ rlast.name \notin DOMAIN rlast.pre
    /\ Cardinality(DOMAIN servers) = 2

----------------------------------------------------------------------------
(* C14: Introspect, dispatched on a finalized registry, returns the        *)
(* document rendered from the registry as it is at the call: every         *)
(* interface of the registry (the application's and the three standard     *)
(* ones) once, each with its declared properties, methods and signals; so  *)
(* two calls on an unchanged registry return the same document.            *)
C14_IntrospectListsRegistry ==
    (Handled /\ finalized /\ Target = CallHeaders(IntrospectableName, "Introspect")) =>
        /\ Claimed
        /\ last.hres = Ok(<<StrV(IntrospectXml(map, Children))>>)
        /\ Len(last.sent) = 1
        /\ last.sent[1].args = <<StrV(IntrospectXml(map, Children))>>

\* A step that handled Peer.Ping on a finalized registry.
PingStep ==
    /\ finalized
    /\ last'.op = "handle"
    /\ call_headers(last'.msg) = CallHeaders(PeerName, "Ping")

(* C15: Peer.Ping dispatched on a finalized registry succeeds with an      *)
(* empty result list whatever the arguments of the message and the         *)
(* interfaces of the registry: handle returns Some, the one message sent   *)
(* is a method return without arguments, the thread does not unwind, and   *)
(* the interface map, the finalized flag and the property cells are what   *)
(* they were before the call.                                              *)
C15_PingSucceeds ==
    [][PingStep =>
        /\ last'.val \in {"SomeOk", "SomeErr"}
        /\ last'.ran
        /\ last'.hres = Ok(<<>>)
        /\ last'.calls = <<Call("cb", "Peer.Ping")>>
        /\ last'.sent = <<Message_return_message(last'.msg)>>
        /\ ~panicked' /\ live'
        /\ map' = map /\ finalized' = finalized /\ cells' = cells]_vars

\* Ping with an argument was handled on a finalized registry that holds two
\* application interfaces.
C15_Witness ==
    /\ Handled /\ finalized
    /\ Target = CallHeaders(PeerName, "Ping")
    /\ last.msg.body = Body(<<V1>>)
    /\ last.hres = Ok(<<>>)
    /\ UserNames \subseteq DOMAIN map

(* C16: no access to the shared map is attempted while another one is      *)
(* outstanding, so handle never unwinds on a conflicting borrow: a call to *)
(* Properties.Get, Set or GetAll or to Introspect that resolves is run to  *)
(* its end, handle returns Some and one reply is sent.                     *)
C16_NoConflictingAccess ==
    Handled =>
        /\ last.val # "Panic"
        /\ ~panicked
        /\ (Resolves /\ Target.interface \in {PropertiesName, IntrospectableName}) =>
                (Claimed /\ Len(last.sent) = 1)

----------------------------------------------------------------------------
\* The method closures invoked in the last turn of the loop.
ClosureCalls == {j \in 1..Len(rlast.calls) : rlast.calls[j].op = "cb"}

(* C17: in a turn of the loop at most one method closure is invoked, and   *)
(* at most once, whatever number of servers has the target; when a server  *)
(* claimed the item exactly one closure ran and exactly one message was    *)
(* handed to Connection::send, whether or not the send succeeded; when no  *)
(* server claimed it nothing was handed to send.                           *)
C17_OneHandlerOneSend ==
    Ran =>
        /\ Cardinality(ClosureCalls) <= 1
        /\ Len(rlast.claimed) <= 1
        /\ rlast.claimed # <<>> => (Cardinality(ClosureCalls) = 1 /\ Len(rlast.sent) = 1)
        /\ rlast.claimed = <<>> => rlast.sent = <<>>
        /\ (rlast.claimed = <<>> /\ ~rlast.panic) => rlast.calls = <<>>

\* Two servers have the target of a call; the first claimed it and its send
\* failed.
C17_Witness ==
    /\ UserCall
    /\ Cardinality(Resolvers) = 2
    /\ rlast.claimed = <<"srv.a">>
    /\ rlast.val = "Err"
    /\ Len(rlast.sent) = 1 /\ Cardinality(ClosureCalls) = 1

----------------------------------------------------------------------------
(* C18: once finalized is true no add_interface, finalize or handle makes  *)
(* it false, and none of them changes the interface map: the interface     *)
(* names and the methods, properties and signals of each interface stay    *)
(* those the registry had when finalize completed.  At all times an        *)
(* interface is only ever inserted under a name the map does not hold, so  *)
(* no two interfaces share a name.                                         *)
C18_FinalizedIsStable ==
    [][/\ finalized => (finalized' /\ map' = map)
       /\ \A n \in DOMAIN map : n \in DOMAIN map' /\ map'[n] = map[n]
       /\ (last'.op = "add_interface" /\ last'.val = "Ok") =>
            (last'.name \notin DOMAIN map /\ DOMAIN map' = DOMAIN map \cup {last'.name})]_vars

\* add_interface under a new name was refused on a finalized registry.
C18_Witness ==
    /\ finalized
    /\ last.op = "add_interface" /\ last.val = "Err"
    /\ last.name \notin DOMAIN map
    /\ last.pre = map /\ last.preFinalized

\* A step in which handle returned Some(Err(())): Connection::send failed.
SendFailedStep == last'.op = "handle" /\ last'.val = "SomeErr"

(* C19: when Connection::send fails, handle returns Some(Err): the call is *)
(* claimed.  The method closure ran exactly once, the reply was handed to  *)
(* send exactly once (it is not sent again), the thread does not unwind,   *)
(* and the closure's result, the handlers invoked, the message handed to   *)
(* send and the state of the registry afterwards are those of the same     *)
(* call with a successful send.                                            *)
C19_SendFailure ==
    [][SendFailedStep =>
        LET sent_ok == Interfaces_handle(Self, last'.msg, TRUE, cells)
        IN  /\ sent_ok.val = "SomeOk"
            /\ last'.ran
            /\ Cardinality({j \in 1..Len(last'.calls) : last'.calls[j].op = "cb"}) = 1
            /\ Len(last'.sent) = 1
            /\ last'.sent[1].reply_serial = last'.msg.serial
            /\ last'.hres = sent_ok.hres
            /\ last'.calls = sent_ok.calls
            /\ cells' = sent_ok.cells
            /\ map' = map /\ finalized' = finalized
            /\ ~panicked' /\ live']_vars

\* The send of the error reply of an application closure failed.
C19_Witness ==
    /\ Handled /\ last.val = "SomeErr"
    /\ last.msg.serial = 2
    /\ last.calls = <<Call("cb", "q.n")>>
    /\ ~last.hres.ok
    /\ Len(last.sent) = 1 /\ last.sent[1].type = "error"

----------------------------------------------------------------------------
\* The declared ReadOnly and ReadWrite properties of interface i whose
\* reader succeeds on the cells c.
ReadableNow(i, c) ==
    {k \in DOMAIN i.properties :
        /\ i.properties[k].access.kind \in {"RO", "RW"}
        /\ c[i.properties[k].access.h] # Unset}

(* C20: GetAll(iface) returns one dictionary whose keys are exactly the    *)
(* ReadOnly and ReadWrite properties of the interface whose reader         *)
(* succeeds at the call, each with the value its reader returned; the      *)
(* WriteOnly property and the property whose reader fails are left out;    *)
(* the reader of every readable property is invoked exactly once and no    *)
(* writer is; the failing reader does not make the call fail.              *)
C20_GetAllReadable ==
    (PropsCall("GetAll", <<StrV(IfaceA)>>) /\ HasPropIface) =>
        /\ Claimed
        /\ last.hres.ok
        /\ Len(last.hres.vals) = 1
        /\ last.hres.vals[1].t = "a{sv}"
        /\ DOMAIN last.hres.vals[1].d = ReadableNow(map[IfaceA], cells)
        /\ \A k \in ReadableNow(map[IfaceA], cells) :
                last.hres.vals[1].d[k] = cells[HandlerId(IfaceA, k)]
        /\ {"wo", "bad"} \cap DOMAIN last.hres.vals[1].d = {}
        /\ \A k \in {"ro", "rw", "bad"} :
                Cardinality({j \in HandlerCalls :
                                last.calls[j] = Call("get", HandlerId(IfaceA, k))}) = 1
        /\ \A j \in HandlerCalls : last.calls[j].op = "get" /\ last.calls[j].h # HandlerId(IfaceA, "wo")
        /\ last.hres = Ok(<<DictV(get_property_map(map[IfaceA], cells).dict)>>)

----------------------------------------------------------------------------
(* C21: the loop of run takes the items one at a time.  At most one item   *)
(* is in its turn; when the connection is asked for the next item no turn  *)
(* is under way; every step of a turn is about the item fetched last, so   *)
(* all that is done for an item is done before the next is fetched; a      *)
(* handler that returned is followed by the send of its reply before the   *)
(* next fetch; and the replies are sent in the order of their calls'       *)
(* fetches.                                                                *)

Sends == {"sent", "send_failed"}

C21_RunToCompletion ==
    LET ev == loop.events
    IN  /\ Cardinality(loop.inproc) <= 1
        /\ loop.pc = "iter" => loop.inproc = {}
        /\ loop.pc # "iter" => loop.inproc = {loop.fetched}
        /\ \A i, j \in DOMAIN ev : i < j => ev[i].k <= ev[j].k
        /\ \A i, j \in DOMAIN ev :
               (i < j /\ ev[i].ev = "handler" /\ ev[j].ev = "fetch")
               => \E s \in DOMAIN ev : i < s /\ s < j /\ ev[s].ev \in Sends /\ ev[s].k = ev[i].k
        /\ \A i, j \in DOMAIN ev :
               (i < j /\ ev[i].ev = "sent" /\ ev[j].ev = "sent") => ev[i].k < ev[j].k

\* Three items were fetched, the first two were calls whose replies were
\* sent, and the handler of the third has run.
C21_Witness ==
    /\ loop.fetched = 3
    /\ \E i, j \in DOMAIN loop.events :
           /\ loop.events[i] = Event("sent", 1)
           /\ loop.events[j] = Event("sent", 2)
    /\ loop.events[Len(loop.events)] = Event("handler", 3)

----------------------------------------------------------------------------
(* C22: the introspection document has its content in a fixed order:       *)
(* interfaces by ascending name; in an interface the properties by name,   *)
(* then the methods by name, then the signals by name; in a method the     *)
(* input arguments tagged "in" as declared, then the output arguments      *)
(* tagged "out", then the annotations; signal arguments tagged "out";      *)
(* access rendered read, readwrite, write; after the interfaces one node   *)
(* element per child in the order of the children list.                    *)
(* The order is stated as a sort key: each piece of the document gets the  *)
(* key <<interface, section, member, part, position>> and the document is  *)
(* the pieces in ascending order of their keys.                            *)

Piece(key, text) == [key |-> key, text |-> text]
KeyNum(k) == (((k[1] * 10 + k[2]) * 10 + k[3]) * 10 + k[4]) * 10 + k[5]
RankIn(S, n) == Cardinality({x \in S : Before(x, n)}) + 1
ClaimedAccess(kind) ==
    CASE kind = "RO" -> "read" [] kind = "RW" -> "readwrite" [] kind = "WO" -> "write"

PropertyPieces(i, j, name, p) ==
    {Piece(<<i, 1, j, 0, 0>>, name \o "<property name=\"\" type=\"" \o p.signature
                              \o "\" access=\"" \o ClaimedAccess(p.access.kind) \o "\">\\n"),
     Piece(<<i, 1, j, 4, 0>>, "  </property>\\n")}
    \cup {Piece(<<i, 1, j, 3, q>>, _introspect_annotation("   ", p.anns[q])) : q \in DOMAIN p.anns}

MethodPieces(i, j, name, m) ==
    {Piece(<<i, 2, j, 0, 0>>, name \o "<method name=\"\">\\n"),
     Piece(<<i, 2, j, 4, 0>>, "  </method>\\n")}
    \cup {Piece(<<i, 2, j, 1, q>>, _introspect_arg("   ", "in", m.in_args[q])) : q \in DOMAIN m.in_args}
    \cup {Piece(<<i, 2, j, 2, q>>, _introspect_arg("   ", "out", m.out_args[q])) : q \in DOMAIN m.out_args}
    \cup {Piece(<<i, 2, j, 3, q>>, _introspect_annotation("   ", m.anns[q])) : q \in DOMAIN m.anns}

SignalPieces(i, j, name, sg) ==
    {Piece(<<i, 3, j, 0, 0>>, name \o "<signal name=\"\">\\n"),
     Piece(<<i, 3, j, 4, 0>>, "  </signal>\\n")}
    \cup {Piece(<<i, 3, j, 2, q>>, _introspect_arg("   ", "out", sg.args[q])) : q \in DOMAIN sg.args}
    \cup {Piece(<<i, 3, j, 3, q>>, _introspect_annotation("   ", sg.anns[q])) : q \in DOMAIN sg.anns}

InterfacePieces(i, name, iface) ==
    {Piece(<<i, 0, 0, 0, 0>>, " <interface name=\"" \o name \o "\">\\n"),
     Piece(<<i, 4, 0, 0, 0>>, " </interface>\\n")}
    \cup UNION {PropertyPieces(i, RankIn(DOMAIN iface.properties, n), n, iface.properties[n]) :
                    n \in DOMAIN iface.properties}
    \cup UNION {MethodPieces(i, RankIn(DOMAIN iface.methods, n), n, iface.methods[n]) :
                    n \in DOMAIN iface.methods}
    \cup UNION {SignalPieces(i, RankIn(DOMAIN iface.signals, n), n, iface.signals[n]) :
                    n \in DOMAIN iface.signals}

DocPieces(m, children) ==
    {Piece(<<0, 0, 0, 0, 0>>,
           "<!DOCTYPE node PUBLIC \"-//freedesktop//DTD D-BUS Object Introspection 1.0//EN\"\\n"
           \o " \"http://www.freedesktop.org/standards/dbus/1.0/introspect.dtd\">\\n"
           \o "<!-- rust-bus " \o CargoPkgVersion \o " -->" \o "<node>\\n"),
     Piece(<<9, 9, 0, 0, 0>>, "</node>\\n")}
    \cup UNION {InterfacePieces(RankIn(DOMAIN m, n), n, m[n]) : n \in DOMAIN m}
    \cup {Piece(<<9, 0, 0, 0, q>>, " <node name=\"" \o children[q] \o "\" />") : q \in DOMAIN children}

RECURSIVE InKeyOrder(_)
InKeyOrder(ps) ==
    IF ps = {} THEN ""
    ELSE LET first == CHOOSE x \in ps : \A y \in ps : KeyNum(x.key) <= KeyNum(y.key)
         IN  first.text \o InKeyOrder(ps \ {first})

----------------------------------------------------------------------------
(* C23: finalize on a registry that is finalized already fails with        *)
(* InterfacesFinalized, raised by the first of its adds (that of Peer),    *)
(* and inserts nothing: the map is what it was, with each of the three     *)
(* standard interfaces in it as the first finalize stored it, and the      *)
(* registry stays finalized.                                               *)

C23_FinalizeTwice ==
    (last.op = "finalize" /\ last.preFinalized) =>
        /\ last.val = "Err"
        /\ last.err = Error("InterfacesFinalized", PeerName)
        /\ last.added = <<>>
        /\ map = last.pre
        /\ finalized
        /\ StdNames \subseteq DOMAIN map
        /\ map[PeerName] = PeerInterface_new
        /\ map[PropertiesName] = PropertyInterface_new(MapRc)
        /\ map[IntrospectableName] = IntrospectableInterface_new(MapRc, Children)

\* finalize was called on a finalized registry that holds an interface of
\* the application next to the standard ones.
C23_Witness ==
    /\ last.op = "finalize" /\ last.preFinalized
    /\ "com.example.A" \in DOMAIN map

----------------------------------------------------------------------------
(* C24: add_method, add_property and add_signal replace a member added     *)
(* earlier under the same name.  After any sequence of adds the interface  *)
(* holds, for every name a member of a kind was added under, exactly the   *)
(* member added last under it; a call dispatched to the registered         *)
(* interface runs the closure of the method added last under the called    *)
(* name; a property is read through the property added last; and the       *)
(* introspection document is that of the members added last.               *)

LastOf(log, n) ==
    log[CHOOSE j \in DOMAIN log :
            log[j].name = n /\ \A k \in DOMAIN log : log[k].name = n => k <= j].member
OnlyLast(log) == [n \in {log[j].name : j \in DOMAIN log} |-> LastOf(log, n)]
OnlyLastIface ==
    [methods |-> OnlyLast(builder.methods), properties |-> OnlyLast(builder.properties),
     signals |-> OnlyLast(builder.signals)]

C24_LastWins ==
    /\ builder.iface = OnlyLastIface
    /\ IfaceA \in DOMAIN map => map[IfaceA] = builder.iface
    /\ \A n \in DOMAIN OnlyLastIface.properties :
           get_property_value(builder.iface, n, cells)
             = get_property_value(add_property(Interface_new, n, LastOf(builder.properties, n)), n, cells)
    /\ (Handled /\ IfaceA \in DOMAIN map /\ Target.method \in DOMAIN OnlyLastIface.methods) =>
           /\ last.ran
           /\ last.calls = <<Call("cb", LastOf(builder.methods, Target.method).cb.id)>>
           /\ last.hres = UserCb(LastOf(builder.methods, Target.method).cb.id, last.msg)
    /\ intro.called =>
           intro.res = Ok(<<StrV(IntrospectXml([n \in DOMAIN map |-> OnlyLastIface], intro.children))>>)

\* The method m was added twice, with different closures, the interface was
\* registered and a call to m was dispatched.
C24_Witness ==
    /\ Handled /\ IfaceA \in DOMAIN map /\ Target.method = "m"
    /\ Len(builder.methods) >= 2
    /\ builder.methods[1].name = "m" /\ builder.methods[2].name = "m"
    /\ builder.methods[1].member # builder.methods[2].member

----------------------------------------------------------------------------
(* C25: when add_server(name) is called for a name that is not registered  *)
(* and the construction of the server fails, the construction's error is   *)
(* returned and the server map is what it was, without an entry for name.  *)
(* An add_server(name) that follows is not rejected with                   *)
(* ServerAlreadyRegistered: it inserts the server when the construction    *)
(* succeeds this time; a remove_server(name) that follows fails with       *)
(* NoSuchServer(name) and changes nothing.                                 *)

\* The last operation was an add_server for an unregistered name in which
\* the construction of the server failed.
ConstructionFailed ==
    /\ AddedServer /\ ~rlast.built
    /\ rlast.name \notin DOMAIN rlast.pre

C25_FailedConstruction ==
    [][ConstructionFailed =>
        /\ rlast.val = "Err"
        /\ rlast.err = DBusServer_new(rlast.name, FALSE).err
        /\ servers = rlast.pre
        /\ rlast.name \notin DOMAIN servers
        /\ (rlast'.op = "add_server" /\ rlast'.name = rlast.name) =>
               /\ rlast'.err # Error("ServerAlreadyRegistered", rlast.name)
               /\ rlast'.built => (rlast'.val = "Ok" /\ rlast.name \in DOMAIN servers')
        /\ (rlast'.op = "remove_server" /\ rlast'.name = rlast.name) =>
               /\ rlast'.val = "Err"
               /\ rlast'.err = Error("NoSuchServer", rlast.name)
               /\ servers' = servers]_vars

\* The construction failed in an add_server("srv.b") while the map held one
\* server, "srv.a".
C25_Witness ==
    /\ ConstructionFailed /\ rlast.name = "srv.b"
    /\ DOMAIN servers = {"srv.a"}

====
